---------------------------- MODULE Spec2Model ----------------------------
(***************************************************************************)
(* A model of nbody_wrapper.c, the CPython extension function              *)
(* run_nbody_simulation, which saves the working directory, changes to     *)
(* the output directory, calls the external main, tries to change back     *)
(* and returns main's status.                                              *)
(*                                                                         *)
(* The process state is the working directory (an inode of a small         *)
(* directory tree), the tree itself, the wrapper's locals and what the     *)
(* Python caller observes (return value, pending exception, stdout).       *)
(* The external main is the only code that runs between the two chdir      *)
(* calls; its source is not part of the wrapper, so inside main the model  *)
(* allows any directory operation (chdir, rmdir, mkdir), any write of an   *)
(* output file with a relative name, and any int as the returned status.   *)
(* main is a C function call: it is modelled as returning.                 *)
(***************************************************************************)
EXTENDS Integers, Sequences, FiniteSets, TLC

VARIABLES
    fs,               \* directory tree: inode -> [parent, name] link
    cwd,              \* the process's working directory (an inode)
    pc,               \* position in run_nbody_simulation
    pyArgs,           \* the Python argument tuple of the current call
    input_file_path,  \* char *input_file_path   (line 11)
    output_dir_path,  \* char *output_dir_path   (line 12)
    original_dir,     \* char original_dir[1024] (line 24)
    argv_sim,         \* char *argv_sim[]        (line 37)
    argc_sim,         \* int argc_sim            (line 38)
    result,           \* int result              (line 41)
    retval,           \* the PyObject* handed back to Python
    pyErr,            \* the pending Python exception
    stdout,           \* what the call printed
    calls,            \* number of calls made so far
    mainOps,          \* operations main has performed in this invocation
    trace,            \* history: the system calls and calls of this call
    startCwd,         \* history: cwd when the call began
    entryCwd,         \* history: cwd when main was entered
    landed,           \* history: where each invocation of main wrote output
    driver_state,     \* Simulation Driver: state of the state machine
    step_count,       \* Simulation Driver: steps integrated so far
    total_steps,      \* Run Configuration: steps to integrate
    output_interval,  \* Run Configuration: checkpoint cadence
    snapshots,        \* Output Writer: step counts of the snapshots written
    run_error,        \* Simulation Driver: the error that ended the run
    status_code       \* Simulation Driver: the status run() returned

wvars == <<fs, cwd, pc, pyArgs, input_file_path, output_dir_path, original_dir,
           argv_sim, argc_sim, result, retval, pyErr, stdout, calls, mainOps,
           trace, startCwd, entryCwd, landed>>

dvars == <<driver_state, step_count, total_steps, output_interval, snapshots,
           run_error, status_code>>

vars == <<fs, cwd, pc, pyArgs, input_file_path, output_dir_path, original_dir,
          argv_sim, argc_sim, result, retval, pyErr, stdout, calls, mainOps,
          trace, startCwd, entryCwd, landed,
          driver_state, step_count, total_steps, output_interval, snapshots,
          run_error, status_code>>

----------------------------------------------------------------------------
(* Bounds of the model *)

MaxCalls == 2

MaxMainOps == 1

MaxSteps == 3

MaxInterval == 3

----------------------------------------------------------------------------
(* C strings and the directory tree *)

\* sizeof(original_dir)
PathBufSize == 1024

\* A C string holding a path: absolute or relative, a sequence of segments.
Str(abs, segs) == [null |-> FALSE, abs |-> abs, segs |-> segs]

Abs(segs) == Str(TRUE, segs)

Rel(segs) == Str(FALSE, segs)

\* The null pointer.
NULL == [null |-> TRUE, abs |-> FALSE, segs |-> <<>>]

Root == "ino0"

Dirs == {"ino0", "ino1", "ino2", "ino3", "ino4", "ino5", "ino6"}

NoDir == "nodir"

Unlinked == [parent |-> NoDir, name |-> ""]

Link(p, n) == [parent |-> p, name |-> n]

\* Bytes of a path segment. "big" stands for a segment of 1022 bytes.
NameLen(n) ==
    CASE n = "w" -> 1
      [] n = "o" -> 1
      [] n = "x" -> 1
      [] n = "out" -> 3
      [] n = "big" -> 1022
      [] n = "in.txt" -> 6
      [] n = "nbody_comp" -> 10
      [] OTHER -> 1

\* /w, /w/out, /o, /big, /big/x; ino6 is free.
InitFs ==
    [d \in Dirs \ {Root} |->
        CASE d = "ino1" -> Link(Root, "w")
          [] d = "ino2" -> Link("ino1", "out")
          [] d = "ino3" -> Link(Root, "o")
          [] d = "ino4" -> Link(Root, "big")
          [] d = "ino5" -> Link("ino4", "x")
          [] OTHER -> Unlinked]

IsLinked(f, d) == d = Root \/ (d \in DOMAIN f /\ f[d] # Unlinked)

Children(f, d) == {c \in DOMAIN f : f[c].parent = d}

\* The entry `name` of directory d, or NoDir.
Lookup(f, d, name) ==
    LET hit == {c \in DOMAIN f : f[c] = Link(d, name)}
    IN  IF hit = {} THEN NoDir ELSE CHOOSE c \in hit : TRUE

RECURSIVE Walk(_, _, _)
Walk(f, d, segs) ==
    IF d = NoDir THEN NoDir
    ELSE IF segs = <<>> THEN d
    ELSE Walk(f, Lookup(f, d, Head(segs)), Tail(segs))

\* The directory a path names for a process whose working directory is base.
Resolve(f, base, path) ==
    IF path.null THEN NoDir
    ELSE IF path.abs THEN Walk(f, Root, path.segs)
    ELSE IF path.segs = <<>> THEN NoDir
    ELSE Walk(f, base, path.segs)

\* The absolute path of a linked directory.
RECURSIVE PathSegs(_, _)
PathSegs(f, d) ==
    IF d = Root THEN <<>> ELSE Append(PathSegs(f, f[d].parent), f[d].name)

RECURSIVE SegBytes(_)
SegBytes(segs) ==
    IF segs = <<>> THEN 0 ELSE 1 + NameLen(Head(segs)) + SegBytes(Tail(segs))

\* strlen of a path.
StrLen(path) ==
    IF path.segs = <<>> THEN 1
    ELSE SegBytes(path.segs) - (IF path.abs THEN 0 ELSE 1)

----------------------------------------------------------------------------
(* The system calls and CPython calls the wrapper makes *)

\* getcwd(buf, size): the absolute path of the working directory, or NULL
\* when the directory was removed (ENOENT) or the path and its terminating
\* byte do not fit the buffer (ERANGE).
Getcwd(f, d, size) ==
    IF ~IsLinked(f, d) THEN NULL
    ELSE IF StrLen(Abs(PathSegs(f, d))) + 1 > size THEN NULL
    ELSE Abs(PathSegs(f, d))

\* chdir(path): 0 and the new working directory, or -1 and the old one.
ChdirRc(f, base, path) == IF Resolve(f, base, path) = NoDir THEN -1 ELSE 0

ChdirCwd(f, base, path) ==
    IF Resolve(f, base, path) = NoDir THEN base ELSE Resolve(f, base, path)

\* Python objects of an argument tuple.
PyStr(s) == [type |-> "str", str |-> s]

PyInt == [type |-> "int", str |-> NULL]

\* PyArg_ParseTuple(args, "ss", ...): exactly two str objects.
PyArg_ParseTuple_ss(args) ==
    Len(args) = 2 /\ args[1].type = "str" /\ args[2].type = "str"

\* The PyObject* results: NULL, or a Python int.
PyNULL == [null |-> TRUE, val |-> 0]

\* PyLong_FromLong(v): a Python int of the same value. The argument is an
\* int converted to long, which keeps every int value.
PyLong_FromLong(v) == [null |-> FALSE, val |-> v]

NoErr == [type |-> "", msg |-> ""]

PyErr(type, msg) == [type |-> type, msg |-> msg]

\* One printf of the wrapper.
Line(msg, s, n) == [msg |-> msg, str |-> s, num |-> n]

----------------------------------------------------------------------------
(* The wrapper's own decisions *)

GetcwdFailedInverted(r) == r # NULL

\* line 25: getcwd(...) == NULL
GetcwdFailed(r) == r = NULL

OutChdirFailedPositive(rc) == rc > 0

\* line 31: chdir(output_dir_path) != 0
OutChdirFailed(rc) == rc # 0

\* line 44: chdir(original_dir) != 0
RestoreChdirFailed(rc) == rc # 0

ArgvSimAbsolute(input, outdir, orig) ==
    <<Rel(<<"nbody_comp">>),
      IF input.abs THEN input ELSE Abs(orig.segs \o input.segs),
      NULL>>

ArgvSimBoth(input, outdir, orig) ==
    <<Rel(<<"nbody_comp">>), input, outdir, NULL>>

\* line 37: argv_sim = {"nbody_comp", input_file_path, NULL}; neither
\* output_dir_path nor original_dir goes into it.
ArgvSim(input, outdir, orig) == <<Rel(<<"nbody_comp">>), input, NULL>>

\* line 38
ArgcSim == 2

RestoreTargetOutput(orig, outdir) == outdir

\* line 44: the restoring chdir is given original_dir
RestoreTarget(orig, outdir) == orig

ReturnedStatusNormalised(r) == IF r = 0 THEN 0 ELSE 1

\* line 51: the value given to PyLong_FromLong is result itself
ReturnedStatus(r) == r

PcAfterMainSkipOnFailure(r) == IF r # 0 THEN "finish" ELSE "restore"

\* lines 41-44: the restore follows main's return whatever main returned
PcAfterMain(r) == "restore"

----------------------------------------------------------------------------
(* Inputs *)

InPaths == {Abs(<<"w", "in.txt">>), Rel(<<"in.txt">>)}

OutPaths == {Abs(<<"o">>), Rel(<<"out">>)}

GoodArgs == {<<PyStr(i), PyStr(o)>> : i \in InPaths, o \in OutPaths}

BadArgs == {<<PyStr(Rel(<<"in.txt">>))>>, <<PyStr(Rel(<<"in.txt">>)), PyInt>>}

\* The statuses main may return.
MainResults == {0, 1, -1}

\* The paths main may create a directory at.
MkdirPaths == {Abs(<<"w">>), Abs(<<"o">>), Abs(<<"w", "out">>)}

----------------------------------------------------------------------------
(* State after the module is imported *)

\* A driver that has not been started: Initialized, nothing run yet.
DriverIdle ==
    /\ driver_state = "Initialized"
    /\ step_count = 0
    /\ total_steps = 0
    /\ output_interval = 1
    /\ snapshots = {}
    /\ run_error = "none"
    /\ status_code = <<>>

WrapperIdle ==
    /\ fs = InitFs
    /\ pc = "idle"
    /\ pyArgs = <<>>
    /\ input_file_path = NULL
    /\ output_dir_path = NULL
    /\ original_dir = NULL
    /\ argv_sim = <<>>
    /\ argc_sim = 0
    /\ result = 0
    /\ retval = PyNULL
    /\ pyErr = NoErr
    /\ stdout = <<>>
    /\ calls = 0
    /\ mainOps = 0
    /\ trace = <<>>
    /\ entryCwd = NoDir
    /\ landed = {}

Init ==
    /\ WrapperIdle
    /\ cwd \in {d \in Dirs \ {Root} : IsLinked(InitFs, d)}
    /\ startCwd = cwd
    /\ DriverIdle

----------------------------------------------------------------------------
(* run_nbody_simulation, one action per step *)

\* Python calls run_nbody_simulation(*args).
Call(args) ==
    /\ pc \in {"idle", "returned"}
    /\ calls < MaxCalls
    /\ pc' = "parse"
    /\ calls' = calls + 1
    /\ pyArgs' = args
    /\ input_file_path' = NULL
    /\ output_dir_path' = NULL
    /\ original_dir' = NULL
    /\ argv_sim' = <<>>
    /\ argc_sim' = 0
    /\ result' = 0
    /\ retval' = PyNULL
    /\ pyErr' = NoErr
    /\ stdout' = <<>>
    /\ mainOps' = 0
    /\ trace' = <<>>
    /\ startCwd' = cwd
    /\ entryCwd' = NoDir
    /\ UNCHANGED <<fs, cwd, landed>>
    /\ UNCHANGED dvars

\* lines 15-21
ParseArgs ==
    /\ pc = "parse"
    /\ IF PyArg_ParseTuple_ss(pyArgs)
       THEN /\ input_file_path' = pyArgs[1].str
            /\ output_dir_path' = pyArgs[2].str
            /\ stdout' = stdout \o
                 <<Line("N-body simulation starting...", NULL, 0),
                   Line("Input file: %s", pyArgs[1].str, 0),
                   Line("Output directory: %s", pyArgs[2].str, 0)>>
            /\ pc' = "getcwd"
            /\ UNCHANGED <<retval, pyErr, trace>>
       ELSE /\ retval' = PyNULL
            /\ pyErr' = PyErr("TypeError", "PyArg_ParseTuple")
            /\ pc' = "returned"
            /\ trace' = Append(trace, "return_null")
            /\ UNCHANGED <<input_file_path, output_dir_path, stdout>>
    /\ UNCHANGED <<fs, cwd, pyArgs, original_dir, argv_sim, argc_sim, result,
                   calls, mainOps, startCwd, entryCwd, landed>>
    /\ UNCHANGED dvars

\* lines 24-28
GetCwd ==
    /\ pc = "getcwd"
    /\ original_dir' = Getcwd(fs, cwd, PathBufSize)
    /\ IF GetcwdFailed(Getcwd(fs, cwd, PathBufSize))
       THEN /\ pyErr' = PyErr("OSError", "Cannot get current directory")
            /\ retval' = PyNULL
            /\ pc' = "returned"
            /\ trace' = trace \o
                 <<IF Getcwd(fs, cwd, PathBufSize) = NULL
                   THEN "getcwd_fail" ELSE "getcwd_ok", "return_null">>
       ELSE /\ pc' = "chdir"
            /\ trace' = Append(trace,
                 IF Getcwd(fs, cwd, PathBufSize) = NULL
                 THEN "getcwd_fail" ELSE "getcwd_ok")
            /\ UNCHANGED <<pyErr, retval>>
    /\ UNCHANGED <<fs, cwd, pyArgs, input_file_path, output_dir_path, argv_sim,
                   argc_sim, result, stdout, calls, mainOps, startCwd,
                   entryCwd, landed>>
    /\ UNCHANGED dvars

\* lines 31-34
ChdirOut ==
    /\ pc = "chdir"
    /\ cwd' = ChdirCwd(fs, cwd, output_dir_path)
    /\ IF OutChdirFailed(ChdirRc(fs, cwd, output_dir_path))
       THEN /\ pyErr' = PyErr("OSError", "Cannot change to output directory")
            /\ retval' = PyNULL
            /\ pc' = "returned"
            /\ trace' = trace \o
                 <<IF ChdirRc(fs, cwd, output_dir_path) = 0
                   THEN "chdir_out_ok" ELSE "chdir_out_fail", "return_null">>
       ELSE /\ pc' = "callmain"
            /\ trace' = Append(trace,
                 IF ChdirRc(fs, cwd, output_dir_path) = 0
                 THEN "chdir_out_ok" ELSE "chdir_out_fail")
            /\ UNCHANGED <<pyErr, retval>>
    /\ UNCHANGED <<fs, pyArgs, input_file_path, output_dir_path, original_dir,
                   argv_sim, argc_sim, result, stdout, calls, mainOps,
                   startCwd, entryCwd, landed>>
    /\ UNCHANGED dvars

\* lines 37-41: set up argv and enter main
CallMain ==
    /\ pc = "callmain"
    /\ argv_sim' = ArgvSim(input_file_path, output_dir_path, original_dir)
    /\ argc_sim' = ArgcSim
    /\ pc' = "main"
    /\ mainOps' = 0
    /\ entryCwd' = cwd
    /\ trace' = Append(trace, "main_call")
    /\ UNCHANGED <<fs, cwd, pyArgs, input_file_path, output_dir_path,
                   original_dir, result, retval, pyErr, stdout, calls,
                   startCwd, landed>>
    /\ UNCHANGED dvars

----------------------------------------------------------------------------
(* The external main (line 8), between its call and its return (line 41)   *)

MainStep ==
    /\ pc = "main"
    /\ mainOps < MaxMainOps
    /\ mainOps' = mainOps + 1
    /\ UNCHANGED <<pc, pyArgs, input_file_path, output_dir_path, original_dir,
                   argv_sim, argc_sim, result, retval, pyErr, stdout, calls,
                   trace, startCwd, entryCwd>>
    /\ UNCHANGED dvars

\* main changes the working directory.
MainChdir(d) ==
    /\ MainStep
    /\ IsLinked(fs, d)
    /\ d # cwd
    /\ cwd' = d
    /\ UNCHANGED <<fs, landed>>

\* main removes an empty directory (the working directory included).
MainRmdir(d) ==
    /\ MainStep
    /\ d # Root
    /\ IsLinked(fs, d)
    /\ Children(fs, d) = {}
    /\ fs' = [fs EXCEPT ![d] = Unlinked]
    /\ UNCHANGED <<cwd, landed>>

\* main creates a directory: an inode never used before, under an existing
\* parent.
MainMkdir(path) ==
    /\ MainStep
    /\ Resolve(fs, cwd, path) = NoDir
    /\ Resolve(fs, cwd, Abs(SubSeq(path.segs, 1, Len(path.segs) - 1))) # NoDir
    /\ \E d \in DOMAIN fs :
         /\ InitFs[d] = Unlinked
         /\ ~IsLinked(fs, d)
         /\ fs' = [fs EXCEPT ![d] =
               Link(Resolve(fs, cwd, Abs(SubSeq(path.segs, 1, Len(path.segs) - 1))),
                    path.segs[Len(path.segs)])]
    /\ UNCHANGED <<cwd, landed>>

\* main writes its output files under the names it hardcodes, which are
\* relative: they land in the working directory of that moment.
MainWrite ==
    /\ MainStep
    /\ IsLinked(fs, cwd)
    /\ landed' = landed \cup {[argv |-> argv_sim, dir |-> cwd]}
    /\ UNCHANGED <<fs, cwd>>

\* main returns r, which line 41 assigns to result.
MainReturn(r) ==
    /\ pc = "main"
    /\ result' = r
    /\ pc' = PcAfterMain(r)
    /\ trace' = Append(trace, "main_return")
    /\ UNCHANGED <<fs, cwd, pyArgs, input_file_path, output_dir_path,
                   original_dir, argv_sim, argc_sim, retval, pyErr, stdout,
                   calls, mainOps, startCwd, entryCwd, landed>>
    /\ UNCHANGED dvars

----------------------------------------------------------------------------
(* run_nbody_simulation after main has returned *)

RestoreRaises ==
    /\ pc = "restore"
    /\ cwd' = ChdirCwd(fs, cwd, RestoreTarget(original_dir, output_dir_path))
    /\ IF RestoreChdirFailed(
            ChdirRc(fs, cwd, RestoreTarget(original_dir, output_dir_path)))
       THEN /\ pyErr' = PyErr("OSError", "Cannot restore original directory")
            /\ retval' = PyNULL
            /\ pc' = "returned"
            /\ trace' = trace \o <<"chdir_back_fail", "return_null">>
       ELSE /\ pc' = "finish"
            /\ trace' = Append(trace, "chdir_back_ok")
            /\ UNCHANGED <<pyErr, retval>>
    /\ UNCHANGED <<fs, pyArgs, input_file_path, output_dir_path, original_dir,
                   argv_sim, argc_sim, result, stdout, calls, mainOps,
                   startCwd, entryCwd, landed>>
    /\ UNCHANGED dvars

\* lines 44-46
Restore ==
    /\ pc = "restore"
    /\ cwd' = ChdirCwd(fs, cwd, RestoreTarget(original_dir, output_dir_path))
    /\ IF RestoreChdirFailed(
            ChdirRc(fs, cwd, RestoreTarget(original_dir, output_dir_path)))
       THEN /\ stdout' = Append(stdout,
                 Line("Warning: Could not restore original directory", NULL, 0))
            /\ trace' = Append(trace, "chdir_back_fail")
       ELSE /\ trace' = Append(trace, "chdir_back_ok")
            /\ UNCHANGED stdout
    /\ pc' = "finish"
    /\ UNCHANGED <<fs, pyArgs, input_file_path, output_dir_path, original_dir,
                   argv_sim, argc_sim, result, retval, pyErr, calls, mainOps,
                   startCwd, entryCwd, landed>>
    /\ UNCHANGED dvars

\* lines 48-51
Finish ==
    /\ pc = "finish"
    /\ stdout' = Append(stdout,
         Line("N-body simulation completed with return code: %d", NULL, result))
    /\ retval' = PyLong_FromLong(ReturnedStatus(result))
    /\ pc' = "returned"
    /\ trace' = Append(trace, "return")
    /\ UNCHANGED <<fs, cwd, pyArgs, input_file_path, output_dir_path,
                   original_dir, argv_sim, argc_sim, result, pyErr, calls,
                   mainOps, startCwd, entryCwd, landed>>
    /\ UNCHANGED dvars

Next ==
    \/ \E args \in GoodArgs \cup BadArgs : Call(args)
    \/ ParseArgs
    \/ GetCwd
    \/ ChdirOut
    \/ CallMain
    \/ \E d \in Dirs : MainChdir(d)
    \/ \E d \in Dirs : MainRmdir(d)
    \/ \E p \in MkdirPaths : MainMkdir(p)
    \/ MainWrite
    \/ \E r \in MainResults : MainReturn(r)
    \/ Restore
    \/ Finish

Spec == Init /\ [][Next]_vars

----------------------------------------------------------------------------
(* The Simulation Driver behind the entry point: run(config, output_dir)   *)
(* as the design describes it. status_code is <<>> until run returns.      *)

\* What takes a run to Failed.
RunErrors == {"ParseError", "DivergenceError", "IOError"}

FailStatusIgnoringIO(e) ==
    CASE e = "ParseError" -> 1
      [] e = "DivergenceError" -> 2
      [] OTHER -> 0

\* The status of a failed run: a distinct non-zero code per error.
FailStatus(e) ==
    CASE e = "ParseError" -> 1
      [] e = "DivergenceError" -> 2
      [] OTHER -> 3

\* Checkpoint cadence: step_count % output_interval == 0.
CheckpointDue(n, interval) == n % interval = 0

DriverInit ==
    /\ driver_state = "Initialized"
    /\ step_count = 0
    /\ total_steps \in 0..MaxSteps
    /\ output_interval \in 1..MaxInterval
    /\ snapshots = {}
    /\ run_error = "none"
    /\ status_code = <<>>
    /\ WrapperIdle
    /\ cwd = "ino1"
    /\ startCwd = "ino1"

\* Initialized -> Running
DriverStart ==
    /\ driver_state = "Initialized"
    /\ driver_state' = "Running"
    /\ UNCHANGED <<step_count, total_steps, output_interval, snapshots,
                   run_error, status_code>>
    /\ UNCHANGED wvars

\* One pass of the loop: evaluate forces, integrate one step, increment
\* step_count, checkpoint if the cadence says so.
DriverStep ==
    /\ driver_state = "Running"
    /\ step_count < total_steps
    /\ step_count' = step_count + 1
    /\ snapshots' = IF CheckpointDue(step_count + 1, output_interval)
                    THEN snapshots \cup {step_count + 1} ELSE snapshots
    /\ UNCHANGED <<driver_state, total_steps, output_interval, run_error,
                   status_code>>
    /\ UNCHANGED wvars

\* Running -> Failed. The input is read before the first step; a step may
\* diverge; a snapshot write (the checkpoint of the step being taken, or
\* the final one) may fail. What was written stays.
DriverFail(e) ==
    /\ driver_state = "Running"
    /\ e = "ParseError" => step_count = 0
    /\ e = "DivergenceError" => step_count < total_steps
    /\ e = "IOError" =>
         \/ step_count = total_steps
         \/ CheckpointDue(step_count + 1, output_interval)
    /\ step_count' = IF e = "IOError" /\ step_count < total_steps
                     THEN step_count + 1 ELSE step_count
    /\ driver_state' = "Failed"
    /\ run_error' = e
    /\ UNCHANGED <<total_steps, output_interval, snapshots, status_code>>
    /\ UNCHANGED wvars

\* Running -> Completed, once step_count has reached total_steps; the final
\* snapshot is written whatever the cadence.
DriverComplete ==
    /\ driver_state = "Running"
    /\ step_count = total_steps
    /\ driver_state' = "Completed"
    /\ snapshots' = snapshots \cup {step_count}
    /\ UNCHANGED <<step_count, total_steps, output_interval, run_error,
                   status_code>>
    /\ UNCHANGED wvars

\* run returns its status.
DriverReturn ==
    /\ driver_state \in {"Completed", "Failed"}
    /\ status_code = <<>>
    /\ status_code' = IF driver_state = "Completed" THEN <<0>>
                      ELSE <<FailStatus(run_error)>>
    /\ UNCHANGED <<driver_state, step_count, total_steps, output_interval,
                   snapshots, run_error>>
    /\ UNCHANGED wvars

DriverNext ==
    \/ DriverStart
    \/ DriverStep
    \/ \E e \in RunErrors : DriverFail(e)
    \/ DriverComplete
    \/ DriverReturn

\* The step loop is single-threaded and synchronous: a run that can take a
\* step takes one.
DriverSpec == DriverInit /\ [][DriverNext]_vars /\ WF_vars(DriverNext)

----------------------------------------------------------------------------
(* Properties *)

Events == {trace[i] : i \in 1..Len(trace)}

IsPrefix(a, b) == Len(a) <= Len(b) /\ a = SubSeq(b, 1, Len(a))

Returned == pc = "returned"

MainInvoked == "main_call" \in Events

\* main has just been entered and has done nothing yet.
AtMainEntry == pc = "main" /\ mainOps = 0

\* The directory a relative path of main's is resolved against.
InputBase(path, wd) == IF path.abs THEN Root ELSE wd

WarningLine == Line("Warning: Could not restore original directory", NULL, 0)

Printed == {stdout[i] : i \in 1..Len(stdout)}

\* C1 as claimed: whenever a call has returned, the working directory is
\* the one the call began in, whatever main did.
C1_CwdAlwaysRestored == Returned => cwd = startCwd

\* C1 amended: when a call has returned, the working directory is the one
\* the call began in provided main was not invoked, or the restoring chdir
\* succeeded and original_dir still names the directory the call began in.
C1_CwdRestoredWhenRestoreSucceeds ==
    Returned =>
        /\ ~MainInvoked => cwd = startCwd
        /\ ("chdir_back_ok" \in Events
              /\ Resolve(fs, cwd, original_dir) = startCwd) => cwd = startCwd

\* A call that switched to another directory, ran main and came back.
C1_Witness ==
    /\ Returned
    /\ "chdir_back_ok" \in Events
    /\ entryCwd # startCwd
    /\ cwd = startCwd

\* C2: when a call that invoked main has returned, the Python result is an
\* int equal to what main returned, so it is 0 exactly when main returned 0.
C2_StatusRelayedUnchanged ==
    (Returned /\ MainInvoked) =>
        /\ ~retval.null
        /\ retval.val = result
        /\ (retval.val = 0) <=> (result = 0)

\* main returned -1 and the caller got -1.
C2_Witness ==
    /\ Returned
    /\ MainInvoked
    /\ result = -1
    /\ retval = PyLong_FromLong(-1)

\* C3: when main starts, the working directory is the directory that
\* output_dir_path named for the caller, and the last thing before the
\* call of main was the successful chdir(output_dir_path).
C3_MainStartsInOutputDir ==
    AtMainEntry =>
        /\ cwd = Resolve(fs, startCwd, output_dir_path)
        /\ trace = <<"getcwd_ok", "chdir_out_ok", "main_call">>

\* main entered after a switch to a relative output directory.
C3_Witness ==
    /\ AtMainEntry
    /\ ~output_dir_path.abs
    /\ cwd # startCwd

\* C4 as claimed: main is given both the input file path and the output
\* directory path as arguments.
C4_BothPathsForwarded ==
    AtMainEntry =>
        /\ \E i \in 1..Len(argv_sim) : argv_sim[i] = input_file_path
        /\ \E i \in 1..Len(argv_sim) : argv_sim[i] = output_dir_path

\* C4 amended: main is given one path argument, the input file path, as
\* argv[1]; the output directory path is not an argument, it has been made
\* the working directory.
C4_OnlyInputForwarded ==
    AtMainEntry =>
        /\ Len(argv_sim) = argc_sim + 1
        /\ argc_sim = 2
        /\ argv_sim[2] = input_file_path
        /\ argv_sim[3] = NULL
        /\ cwd = Resolve(fs, startCwd, output_dir_path)

\* main entered with an output directory path that is not among argv_sim.
C4_Witness ==
    /\ AtMainEntry
    /\ \A i \in 1..Len(argv_sim) : argv_sim[i] # output_dir_path
    /\ output_dir_path = Abs(<<"o">>)
    /\ cwd = "ino3"

\* C5: where main's output lands does not depend on the working directory
\* main is called in: invocations with the same arguments write to the same
\* place, whatever directory each was entered in.
C5_OutputIndependentOfCwd ==
    \A a, b \in landed : a.argv = b.argv => a.dir = b.dir

\* C7: a call that invokes main goes through getcwd, chdir(output), main,
\* main's return, one restoring chdir (succeeding or not) and the return,
\* in this order and each once.
C7_FixedOrder ==
    MainInvoked =>
        \/ IsPrefix(trace, <<"getcwd_ok", "chdir_out_ok", "main_call",
                             "main_return", "chdir_back_ok", "return">>)
        \/ IsPrefix(trace, <<"getcwd_ok", "chdir_out_ok", "main_call",
                             "main_return", "chdir_back_fail", "return">>)

\* A call that went through all the steps, main having failed.
C7_Witness ==
    /\ Returned
    /\ result # 0
    /\ trace = <<"getcwd_ok", "chdir_out_ok", "main_call", "main_return",
                 "chdir_back_ok", "return">>

\* C8: once argument parsing, getcwd or chdir(output_dir_path) has failed,
\* the call has returned NULL with an exception pending (OSError for
\* getcwd and chdir), main was not invoked and the working directory is the
\* one the call began in; and NULL is returned in no other case.
C8_EarlyFailureLeavesAllUntouched ==
    /\ (pc \notin {"idle", "parse"} /\ ~PyArg_ParseTuple_ss(pyArgs)) =>
          (Returned /\ retval = PyNULL /\ pyErr # NoErr)
    /\ ("getcwd_fail" \in Events \/ "chdir_out_fail" \in Events) =>
          (Returned /\ retval = PyNULL /\ pyErr.type = "OSError")
    /\ (Returned /\ retval = PyNULL) =>
          (~MainInvoked /\ cwd = startCwd /\ pyErr # NoErr)

\* getcwd failed because the path of the working directory, /big/x, does
\* not fit 1024 bytes.
C8_Witness ==
    /\ Returned
    /\ "getcwd_fail" \in Events
    /\ startCwd = "ino5"
    /\ StrLen(Abs(PathSegs(fs, startCwd))) + 1 > PathBufSize
    /\ retval = PyNULL

\* C9: when the restoring chdir failed, the call still returns main's
\* status as a Python int, raises nothing and has printed the warning; the
\* warning is printed in no other case.
C9_RestoreFailureNotReported ==
    Returned =>
        /\ "chdir_back_fail" \in Events =>
              /\ retval = PyLong_FromLong(result)
              /\ pyErr = NoErr
              /\ WarningLine \in Printed
        /\ "chdir_back_ok" \in Events =>
              /\ retval = PyLong_FromLong(result)
              /\ WarningLine \notin Printed

\* main removed the directory the call began in and returned 1.
C9_Witness ==
    /\ Returned
    /\ "chdir_back_fail" \in Events
    /\ result = 1
    /\ cwd # startCwd

\* C10: main is entered with argc = 2 and argv = {"nbody_comp", the
\* caller's input path as given, NULL}, after the switch; a relative input
\* path is then resolved against the output directory.
C10_ArgvAndRelativeInput ==
    AtMainEntry =>
        /\ argc_sim = 2
        /\ argv_sim = <<Rel(<<"nbody_comp">>), pyArgs[1].str, NULL>>
        /\ "chdir_out_ok" \in Events
        /\ ~argv_sim[2].abs =>
              InputBase(argv_sim[2], cwd) =
                  Resolve(fs, startCwd, output_dir_path)

\* main entered with a relative input path, in a directory that is not the
\* caller's.
C10_Witness ==
    /\ AtMainEntry
    /\ ~argv_sim[2].abs
    /\ InputBase(argv_sim[2], cwd) # startCwd

DriverTransition ==
    \/ driver_state' = driver_state
    \/ driver_state = "Initialized" /\ driver_state' = "Running"
    \/ /\ driver_state = "Running"
       /\ driver_state' = "Completed"
       /\ step_count = total_steps
    \/ /\ driver_state = "Running"
       /\ driver_state' = "Failed"
       /\ run_error' \in RunErrors

============================================================================
